---- MODULE Spec2Model ----
(***************************************************************************)
(* Model of backend/chat.js: the in-memory message store, the long-poll   *)
(* waiter registry (callbacksForNewMessages), the WebSocket connection    *)
(* registry (connections) and the notification fan-out of createMessage   *)
(* and handleReaction.                                                     *)
(*                                                                         *)
(* Node runs every handler to completion, so each HTTP handler, timer     *)
(* callback and WebSocket event is one atomic action.                      *)
(***************************************************************************)
EXTENDS Integers, Sequences, FiniteSets, TLC

\* ---------------------------------------------------------------- bounds
MaxMutations == 2   \* creates and reactions ever applied, together
MaxHandles == 2     \* long-poll requests ever held and connections ever accepted, together
MaxTime == 2        \* largest reading of Date.now()

VARIABLES
    messages,                \* chat.js:36  the message array
    nextId,                  \* chat.js:37
    connections,             \* chat.js:39  array of open connections
    callbacksForNewMessages, \* chat.js:40  array of waiting callbacks, one per held request
    timeout,                 \* chat.js:110 per held request: state of its setTimeout handle
    resJson,                 \* per held request: the calls of res.json on its response, in
                             \* order, each as the number of messages in the body
    nextReq,                 \* next fresh handle for a held request (its res object)
    nextConn,                \* next fresh handle for an accepted connection
    sendUTFMayThrow,         \* environment: whether conn.sendUTF can throw in this run
    out,                     \* what the last handler did: response, sends, exception
    hist                     \* what a client has observed so far (which observations
                             \* are recorded is fixed per specification)

vars == <<messages, nextId, connections, callbacksForNewMessages, timeout, resJson,
          nextReq, nextConn, sendUTFMayThrow, out, hist>>

\* ------------------------------------------------------------ input sets
Authors == {"", "Jane"}
Texts == {"", "Hello"}
Ids == 1..2
Reqs == 1..MaxHandles
Conns == 1..MaxHandles

\* Number(req.query.since): NaN when the parameter is absent or unparsable.
NaN == [nan |-> TRUE, val |-> 0]
Num(n) == [nan |-> FALSE, val |-> n]
Sinces == {NaN} \cup {Num(n) : n \in 0..MaxTime}

\* JavaScript truthiness of a number: NaN and 0 are falsy.
Truthy(since) == ~since.nan /\ since.val # 0

\* JavaScript truthiness of a string: "" is falsy.
TruthyStr(s) == s # ""

Range(s) == {s[i] : i \in DOMAIN s}
Last(s) == s[Len(s)]
Front(s) == SubSeq(s, 1, Len(s) - 1)

\* The number of reactions applied so far.
RECURSIVE ReactionCount(_)
ReactionCount(msgs) ==
    IF msgs = <<>> THEN 0
    ELSE Head(msgs).likes + Head(msgs).dislikes + ReactionCount(Tail(msgs))

\* The creates and reactions applied so far, and the handles given out so far.
Mutations == Len(messages) + ReactionCount(messages)
Handles == (nextReq - 1) + (nextConn - 1)

\* ------------------------------------------------------------- helpers
\* messages.find(m => m.id === id): index of the first match, 0 for undefined.
FindOrLast(msgs, id) ==
    IF \E i \in DOMAIN msgs : msgs[i].id = id
    THEN CHOOSE i \in DOMAIN msgs : msgs[i].id = id /\ \A j \in 1..(i - 1) : msgs[j].id # id
    ELSE Len(msgs)
Find(msgs, id) ==
    IF \E i \in DOMAIN msgs : msgs[i].id = id
    THEN CHOOSE i \in DOMAIN msgs : msgs[i].id = id /\ \A j \in 1..(i - 1) : msgs[j].id # id
    ELSE 0

\* messages.filter(m => m.timestamp > since)
NewerOrEqual(m, since) == m.timestamp >= since.val
Newer(m, since) == m.timestamp > since.val

RECURSIVE Filter(_, _)
Filter(msgs, since) ==
    IF msgs = <<>> THEN <<>>
    ELSE IF Newer(Head(msgs), since)
         THEN <<Head(msgs)>> \o Filter(Tail(msgs), since)
         ELSE Filter(Tail(msgs), since)

\* const messagesToSend = since ? messages.filter(...) : messages
MessagesToSend(msgs, since) == IF Truthy(since) THEN Filter(msgs, since) ELSE msgs

\* clearTimeout(timeout): disarms a timer that has not fired; otherwise nothing.
KeepTimeout(tm, w) == tm
ClearTimeout(tm, w) == IF tm[w] = "armed" THEN [tm EXCEPT ![w] = "cleared"] ELSE tm

\* res.json on a response that was already sent throws ("Cannot set headers
\* after they are sent to the client").
HeadersSent(calls) == calls # <<>>

\* notifyLongPolling with an if in place of the while.
NotifyLongPollingOne(cbs, tm, rj, newMessages) ==
    IF cbs = <<>>
    THEN [cbs |-> cbs, tm |-> tm, rj |-> rj, threw |-> FALSE, delivered |-> <<>>]
    ELSE LET cb == Last(cbs)
         IN  [cbs |-> Front(cbs), tm |-> ClearTimeout(tm, cb),
              rj |-> [rj EXCEPT ![cb] = Append(@, Len(newMessages))],
              threw |-> HeadersSent(rj[cb]),
              delivered |-> IF HeadersSent(rj[cb]) THEN <<>>
                            ELSE <<[req |-> cb, body |-> newMessages]>>]

\* notifyLongPolling(newMessages): pops callbacks from the end of the array and
\* calls each; a callback clears its timer and calls res.json(newMessages). An
\* exception thrown by res.json ends the loop with the rest left in the array.
\* delivered lists the responses that were sent, in order.
RECURSIVE NotifyLongPolling(_, _, _, _)
NotifyLongPolling(cbs, tm, rj, newMessages) ==
    IF cbs = <<>>
    THEN [cbs |-> cbs, tm |-> tm, rj |-> rj, threw |-> FALSE, delivered |-> <<>>]
    ELSE LET cb == Last(cbs)
             tm1 == ClearTimeout(tm, cb)
             rj1 == [rj EXCEPT ![cb] = Append(@, Len(newMessages))]
         IN  IF HeadersSent(rj[cb])
             THEN [cbs |-> Front(cbs), tm |-> tm1, rj |-> rj1, threw |-> TRUE,
                   delivered |-> <<>>]
             ELSE LET rest == NotifyLongPolling(Front(cbs), tm1, rj1, newMessages)
                  IN  [rest EXCEPT !.delivered =
                           <<[req |-> cb, body |-> newMessages]>> \o @]

\* notifyWebSockets(type, message): connections.forEach(conn => conn.sendUTF(
\* JSON.stringify({type, message}))). The envelopes sent, in order; a sendUTF
\* that throws (conn in bad) ends the forEach.
RECURSIVE NotifyWebSockets(_, _, _, _)
NotifyWebSockets(conns, bad, type, message) ==
    IF conns = <<>>
    THEN [sends |-> <<>>, threw |-> FALSE]
    ELSE IF Head(conns) \in bad
         THEN [sends |-> <<>>, threw |-> TRUE]
         ELSE LET rest == NotifyWebSockets(Tail(conns), bad, type, message)
              IN  [sends |-> <<[conn |-> Head(conns), type |-> type, message |-> message]>>
                                \o rest.sends,
                   threw |-> rest.threw]

\* The two notify calls of createMessage / handleReaction, in order: the
\* broadcast is skipped when notifyLongPolling threw.
NotifyStale(type, message, bad) ==
    LET lp == NotifyLongPolling(callbacksForNewMessages, timeout, resJson, <<message>>)
        ws == NotifyWebSockets(connections, bad, type,
                               IF messages = <<>> THEN message ELSE messages[1])
    IN  [cbs |-> lp.cbs, tm |-> lp.tm, rj |-> lp.rj, delivered |-> lp.delivered,
         sends |-> ws.sends,
         lpThrew |-> lp.threw, wsThrew |-> ws.threw]
Notify(type, message, bad) ==
    LET lp == NotifyLongPolling(callbacksForNewMessages, timeout, resJson, <<message>>)
        ws == IF lp.threw THEN [sends |-> <<>>, threw |-> FALSE]
              ELSE NotifyWebSockets(connections, bad, type, message)
    IN  [cbs |-> lp.cbs, tm |-> lp.tm, rj |-> lp.rj, delivered |-> lp.delivered,
         sends |-> ws.sends,
         lpThrew |-> lp.threw, wsThrew |-> ws.threw]

\* The sets of connections whose sendUTF throws during one broadcast.
BadSets == IF sendUTFMayThrow THEN SUBSET Range(connections) ELSE {{}}

NoOut == [op |-> "none", core |-> "none", id |-> 0, since |-> NaN, status |-> 0, body |-> <<>>,
          count |-> 0, message |-> <<>>, delivered |-> <<>>, sends |-> <<>>,
          lpThrew |-> FALSE,
          wsThrew |-> FALSE, bad |-> {},
          reaction |-> "", frame |-> "", conn |-> 0, uncaught |-> FALSE]

\* The handler of a WebSocket event: an exception that leaves it is caught by
\* nobody (Express answers 500 for the HTTP handlers), and ends the process.
IsWs(op) == op = "ws message"

\* The process runs until an exception leaves a handler uncaught.
Running == ~out.uncaught

\* The response of a handler whose core call threw: Express answers 500.
Threw(n) == n.lpThrew \/ n.wsThrew

\* Date.now() never runs backwards: a reading is at least every earlier reading,
\* and every reading taken was stored as the timestamp of a message (the latest
\* one is the greatest). The earliest value the next reading can have.
RECURSIVE Now(_)
Now(msgs) ==
    IF msgs = <<>> THEN 1
    ELSE LET rest == Now(Tail(msgs))
         IN  IF Head(msgs).timestamp > rest THEN Head(msgs).timestamp ELSE rest

\* ---------------------------------------------------------------- Init
\* Nothing observed yet. since: the since of each registered waiter (the const
\* of chat.js:100 its callback closes over). due: per open connection, the
\* envelopes of the mutations applied since it was opened. recv: per open
\* connection, the envelopes it was sent after init.
\* t, known, w: for one long-poll client that always polls with since = the
\* greatest timestamp of its last response: that timestamp, its copy of the
\* messages, and its held request.
NoHist(mode) == [mode |-> mode, since |-> [w \in Reqs |-> NaN],
                 due |-> [c \in Conns |-> <<>>], recv |-> [c \in Conns |-> <<>>],
                 t |-> 0, known |-> {}, w |-> 0]

Start(mayThrow, mode) ==
    /\ messages = <<>>
    /\ nextId = 1
    /\ connections = <<>>
    /\ callbacksForNewMessages = <<>>
    /\ timeout = [w \in Reqs |-> "none"]
    /\ resJson = [w \in Reqs |-> <<>>]
    /\ nextReq = 1
    /\ nextConn = 1
    /\ sendUTFMayThrow = mayThrow
    /\ out = NoOut
    /\ hist = NoHist(mode)

Init == Start(FALSE, "none")
InitSendFail == Start(TRUE, "none")
InitSince == Start(FALSE, "since")
InitOrder == Start(FALSE, "order")
InitPoll == Start(FALSE, "poll")

\* -------------------------------------------------------------- actions
\* The waiters' sinces after a handler: a waiter keeps its since while its
\* callback is in the array, and through the handler that calls it.
ObserveSince ==
    [w \in Reqs |->
        IF w \in Range(callbacksForNewMessages) THEN hist.since[w]
        ELSE IF w \in Range(callbacksForNewMessages') THEN out'.since
        ELSE NaN]

\* The envelopes of out'.sends that went to connection c, without init.
RECURSIVE SentTo(_, _)
SentTo(sends, c) ==
    IF sends = <<>> THEN <<>>
    ELSE IF Head(sends).conn = c /\ Head(sends).type # "init"
         THEN <<[type |-> Head(sends).type, message |-> Head(sends).message]>>
                  \o SentTo(Tail(sends), c)
         ELSE SentTo(Tail(sends), c)

\* The client's copy after it received body: a message replaces the copy with
\* the same id.
Merge(known, body) ==
    {k \in known : \A i \in DOMAIN body : body[i].id # k.id} \cup Range(body)

\* What the polling client holds after a handler. A pull with its since (none
\* the first time) is its pull: an immediate response updates its copy and its
\* since, a held one is answered later by a notification or by the timer.
ObservePoll ==
    LET mine == /\ out'.op = "GET /messages"
                /\ hist.w = 0
                /\ out'.since = (IF hist.t = 0 THEN NaN ELSE Num(hist.t))
        answers == {i \in DOMAIN out'.delivered : out'.delivered[i].req = hist.w}
        got(body) == [hist EXCEPT !.known = Merge(@, body), !.t = Now(body), !.w = 0]
    IN  IF mine
        THEN IF out'.status = 200 THEN got(out'.body)
             ELSE [hist EXCEPT !.w = nextReq]
        ELSE IF hist.w # 0 /\ answers # {}
        THEN LET body == out'.delivered[CHOOSE i \in answers : TRUE].body
             IN  IF body = <<>> THEN [hist EXCEPT !.w = 0] ELSE got(body)
        ELSE hist

\* Every handler ends by recording what the clients observed of it.
Observe ==
    hist' =
        IF hist.mode = "since" THEN [hist EXCEPT !.since = ObserveSince]
        ELSE IF hist.mode = "order"
        THEN [hist EXCEPT
                 !.due = [c \in Conns |->
                             IF c \notin Range(connections') THEN <<>>
                             ELSE IF out'.message # <<>> /\ c \in Range(connections)
                             THEN Append(@[c], [type |-> IF out'.core = "createMessage"
                                                         THEN "message" ELSE "update",
                                                message |-> out'.message[1]])
                             ELSE @[c]],
                 !.recv = [c \in Conns |->
                              IF c \notin Range(connections') THEN <<>>
                              ELSE @[c] \o SentTo(out'.sends, c)]]
        ELSE IF hist.mode = "poll" THEN ObservePoll
        ELSE hist

\* nextId++
SameId(n) == n
NextIdAfter(n) == n + 1

\* createMessage(author, text), called by handler op, with Date.now() = t and
\* the sends to the connections in bad throwing.
CreateMessage(op, author, text, t, bad) ==
    LET newMessage == [id |-> nextId, author |-> author, text |-> text,
                       likes |-> 0, dislikes |-> 0, timestamp |-> t]
        n == Notify("message", newMessage, bad)
    IN  /\ messages' = Append(messages, newMessage)
        /\ nextId' = NextIdAfter(nextId)
        /\ callbacksForNewMessages' = n.cbs
        /\ timeout' = n.tm
        /\ resJson' = n.rj
        /\ out' = [NoOut EXCEPT !.op = op, !.core = "createMessage",
                                !.message = <<newMessage>>,
                                !.delivered = n.delivered,
                                !.sends = n.sends, !.lpThrew = n.lpThrew,
                                !.wsThrew = n.wsThrew, !.bad = bad,
                                !.uncaught = IsWs(op) /\ Threw(n),
                                !.status = IF IsWs(op) THEN 0
                                           ELSE IF Threw(n) THEN 500 ELSE 201,
                                !.body = IF IsWs(op) \/ Threw(n) THEN <<>>
                                         ELSE <<newMessage>>]

\* The message after message.likes++ / message.dislikes++ and the timestamp
\* refresh of handleReaction.
ReactBoth(m, reaction, t) ==
    [m EXCEPT !.likes = @ + 1, !.dislikes = @ + 1, !.timestamp = t]
ReactNet(m, reaction, t) ==
    [m EXCEPT !.likes = IF reaction = "like" THEN @ + 1 ELSE @ - 1, !.timestamp = t]
React(m, reaction, t) ==
    [m EXCEPT !.likes = IF reaction = "like" THEN @ + 1 ELSE @,
              !.dislikes = IF reaction = "dislike" THEN @ + 1 ELSE @,
              !.timestamp = t]

\* handleReaction(id, reaction), called by handler op, with Date.now() = t and
\* the sends to the connections in bad throwing. Returns null (status 404)
\* when no message has the id.
HandleReaction(op, id, reaction, t, bad) ==
    LET i == Find(messages, id)
    IN  IF i = 0
        THEN /\ out' = [NoOut EXCEPT !.op = op, !.core = "handleReaction", !.id = id,
                                     !.reaction = reaction,
                                     !.status = IF IsWs(op) THEN 0 ELSE 404]
             /\ UNCHANGED <<messages, callbacksForNewMessages, timeout, resJson>>
        ELSE LET message == React(messages[i], reaction, t)
                 n == Notify("update", message, bad)
             IN  /\ Mutations < MaxMutations
                 /\ messages' = [messages EXCEPT ![i] = message]
                 /\ callbacksForNewMessages' = n.cbs
                 /\ timeout' = n.tm
                 /\ resJson' = n.rj
                 /\ out' = [NoOut EXCEPT !.op = op, !.core = "handleReaction", !.id = id,
                                !.reaction = reaction,
                                !.uncaught = IsWs(op) /\ Threw(n),
                                !.message = <<message>>,
                                !.delivered = n.delivered,
                                !.sends = n.sends, !.lpThrew = n.lpThrew,
                                !.wsThrew = n.wsThrew, !.bad = bad,
                                !.status = IF IsWs(op) THEN 0
                                           ELSE IF Threw(n) THEN 500 ELSE 200,
                                !.count = IF IsWs(op) \/ Threw(n) THEN 0
                                          ELSE IF reaction = "like" THEN message.likes
                                          ELSE message.dislikes]

\* app.get("/messages"): answers at once when there is something to send,
\* otherwise arms the 30 s timer and registers the callback.
GetMessages(since) ==
    LET messagesToSend == MessagesToSend(messages, since)
    IN  /\ Running
        /\ UNCHANGED <<messages, nextId, connections, nextConn, sendUTFMayThrow>>
        /\ IF Len(messagesToSend) > 0
           THEN /\ out' = [NoOut EXCEPT !.op = "GET /messages", !.since = since,
                                        !.status = 200, !.body = messagesToSend]
                /\ UNCHANGED <<callbacksForNewMessages, timeout, resJson, nextReq>>
           ELSE /\ Handles < MaxHandles
                /\ timeout' = [timeout EXCEPT ![nextReq] = "armed"]
                /\ callbacksForNewMessages' = Append(callbacksForNewMessages, nextReq)
                /\ nextReq' = nextReq + 1
                /\ out' = [NoOut EXCEPT !.op = "GET /messages", !.since = since]
                /\ UNCHANGED resJson
        /\ Observe

\* The setTimeout callback of held request w: res.json([]). All timers have
\* the same delay, so they fire in the order they were armed.
Timeout(w) ==
    /\ Running
    /\ timeout[w] = "armed"
    /\ \A v \in 1..(w - 1) : timeout[v] # "armed"
    /\ timeout' = [timeout EXCEPT ![w] = "fired"]
    /\ resJson' = [resJson EXCEPT ![w] = Append(@, Len(<<>>))]
    /\ out' = [NoOut EXCEPT !.op = "timeout",
                   !.delivered = IF HeadersSent(resJson[w]) THEN <<>>
                                 ELSE <<[req |-> w, body |-> <<>>]>>]
    /\ UNCHANGED <<messages, nextId, connections, callbacksForNewMessages,
                   nextReq, nextConn, sendUTFMayThrow>>
    /\ Observe

\* app.post("/messages")
PostMessages(author, text) ==
    /\ Running
    /\ UNCHANGED <<connections, nextReq, nextConn, sendUTFMayThrow>>
    /\ IF ~TruthyStr(author) \/ ~TruthyStr(text)
       THEN /\ out' = [NoOut EXCEPT !.op = "POST /messages", !.status = 400]
            /\ UNCHANGED <<messages, nextId, callbacksForNewMessages, timeout, resJson>>
       ELSE /\ Mutations < MaxMutations
            /\ \E t \in Now(messages)..MaxTime : \E bad \in BadSets :
                   CreateMessage("POST /messages", author, text, t, bad)
    /\ Observe

\* app.post("/messages/:id/like")
PostLike(id) ==
    /\ Running
    /\ UNCHANGED <<nextId, connections, nextReq, nextConn, sendUTFMayThrow>>
    /\ \E t \in Now(messages)..MaxTime : \E bad \in BadSets :
           HandleReaction("POST /messages/:id/like", id, "like", t, bad)
    /\ Observe

\* app.post("/messages/:id/dislike")
PostDislike(id) ==
    /\ Running
    /\ UNCHANGED <<nextId, connections, nextReq, nextConn, sendUTFMayThrow>>
    /\ \E t \in Now(messages)..MaxTime : \E bad \in BadSets :
           HandleReaction("POST /messages/:id/dislike", id, "dislike", t, bad)
    /\ Observe

\* JSON.stringify({type: "init", messages}) sent to connection c.
EmptyInitEnvelope(c, msgs) == [conn |-> c, type |-> "init", messages |-> <<>>]
InitEnvelope(c, msgs) == [conn |-> c, type |-> "init", messages |-> msgs]

\* wsServer.on("request"): accept, register, send the init envelope.
WsRequest ==
    /\ Running
    /\ Handles < MaxHandles
    /\ connections' = Append(connections, nextConn)
    /\ nextConn' = nextConn + 1
    /\ out' = [NoOut EXCEPT !.op = "ws request", !.conn = nextConn,
                   !.sends = <<InitEnvelope(nextConn, messages)>>]
    /\ UNCHANGED <<messages, nextId, callbacksForNewMessages, timeout, resJson,
                   nextReq, sendUTFMayThrow>>
    /\ Observe

\* connections.splice(index, 1)
SpliceLast(conns, index) == Front(conns)
Splice(conns, index) == SubSeq(conns, 1, index - 1) \o SubSeq(conns, index + 1, Len(conns))

\* connections.indexOf(connection): 0 when absent (-1 in JavaScript).
IndexOf(conns, c) ==
    IF \E i \in DOMAIN conns : conns[i] = c
    THEN CHOOSE i \in DOMAIN conns : conns[i] = c /\ \A j \in 1..(i - 1) : conns[j] # c
    ELSE 0

\* connection.on("close") of an accepted connection c: the handler, also when
\* the event comes for a connection that is no longer in the array.
WsClose(c) ==
    /\ Running
    /\ c < nextConn
    /\ LET index == IndexOf(connections, c)
       IN  connections' = IF index # 0 THEN Splice(connections, index) ELSE connections
    /\ out' = [NoOut EXCEPT !.op = "ws close", !.conn = c]
    /\ UNCHANGED <<messages, nextId, callbacksForNewMessages, timeout, resJson,
                   nextReq, nextConn, sendUTFMayThrow>>
    /\ Observe

\* The frames a client sends: message.type other than "utf8" (binary); text
\* that JSON.parse rejects (garbage); the text null, which JSON.parse accepts;
\* and JSON objects by their type, with the fields the handler reads.
Frame(kind, author, text, id) == [kind |-> kind, author |-> author, text |-> text, id |-> id]
Frames ==
    {Frame(k, "", "", 0) : k \in {"binary", "garbage", "null", "other"}}
    \cup {Frame("message", a, "Hello", 0) : a \in Authors}
    \cup {Frame(k, "", "", id) : k \in {"like", "dislike"}, id \in Ids}

\* connection.on("message") of open connection c. Reading data.type of null
\* throws a TypeError outside the try/catch.
WsMessage(c, frame) ==
    /\ Running
    /\ c \in Range(connections)
    /\ UNCHANGED <<connections, nextReq, nextConn, sendUTFMayThrow>>
    /\ IF frame.kind \in {"binary", "garbage", "null", "other"}
       THEN /\ out' = [NoOut EXCEPT !.op = "ws message", !.frame = frame.kind,
                                    !.uncaught = (frame.kind = "null")]
            /\ UNCHANGED <<messages, nextId, callbacksForNewMessages, timeout, resJson>>
       ELSE IF frame.kind = "message"
       THEN /\ Mutations < MaxMutations
            /\ \E t \in Now(messages)..MaxTime : \E bad \in BadSets :
                   CreateMessage("ws message", frame.author, frame.text, t, bad)
       ELSE /\ UNCHANGED nextId
            /\ \E t \in Now(messages)..MaxTime : \E bad \in BadSets :
                   HandleReaction("ws message", frame.id, frame.kind, t, bad)
    /\ Observe

Next ==
    \/ \E author \in Authors, text \in Texts : PostMessages(author, text)
    \/ \E id \in Ids : PostLike(id)
    \/ \E id \in Ids : PostDislike(id)
    \/ \E since \in Sinces : GetMessages(since)
    \/ \E w \in Reqs : Timeout(w)
    \/ WsRequest
    \/ \E c \in Conns, frame \in Frames : WsMessage(c, frame)
    \/ \E c \in Conns : WsClose(c)

Spec == Init /\ [][Next]_vars

\* The same program in an environment where sendUTF can throw.
SpecSendFail == InitSendFail /\ [][Next]_vars

\* Timers are fair: an armed timer that stays armed eventually fires.
FairSpec == Spec /\ WF_vars(\E w \in Reqs : Timeout(w))

\* The same program, with the sinces of the waiters recorded; with the
\* envelopes per connection recorded; with a polling client recorded.
SpecSince == InitSince /\ [][Next]_vars
SpecOrder == InitOrder /\ [][Next]_vars
SpecPoll == InitPoll /\ [][Next]_vars

\* ---------------------------------------------------------------- claims
\* The last handler ran createMessage, or handleReaction on an existing message.
IsMutation == out.core \in {"createMessage", "handleReaction"} /\ out.message # <<>>

\* The envelope type the last mutation broadcasts.
EnvelopeType == IF out.core = "createMessage" THEN "message" ELSE "update"

\* Request w was registered as a waiter and no response has been sent for it.
Pending(w) == timeout[w] # "none" /\ resJson[w] = <<>>

\* C1: res.json is called at most once on the response of a held request; in
\* particular not again by a create or reaction after its timer has fired.
C1_DeliveredAtMostOnce == \A w \in Reqs : Len(resJson[w]) <= 1

\* C2: a held request whose first response came from a notification (a body of
\* one message) has its timer cancelled, and res.json([]) of the timer is never
\* called for it.
C2_NotifyCancelsTimeout ==
    \A w \in Reqs :
        (resJson[w] # <<>> /\ Head(resJson[w]) = 1) =>
            /\ timeout[w] = "cleared"
            /\ \A i \in DOMAIN resJson[w] : resJson[w][i] # 0

C2_Witness ==
    \E w \in Reqs : resJson[w] = <<1>> /\ timeout[w] = "cleared"
                    /\ \E v \in Reqs : timeout[v] = "fired"

\* C3: the registry holds no callback of a request whose timer has fired.
C3_NoFiredWaiterRegistered ==
    \A i \in DOMAIN callbacksForNewMessages : timeout[callbacksForNewMessages[i]] # "fired"

\* C4: after a create or a successful reaction, every open connection was sent
\* exactly one envelope, of the mutation's type and carrying its message.
C4_EveryConnectionOneEnvelope ==
    IsMutation =>
        \A c \in Range(connections) :
            \E i \in DOMAIN out.sends :
                /\ out.sends[i] = [conn |-> c, type |-> EnvelopeType,
                                   message |-> out.message[1]]
                /\ \A j \in DOMAIN out.sends : out.sends[j].conn = c => j = i

\* C5: a create or a successful reaction delivers the one-element sequence with
\* its message to every waiter that was pending when it started, and leaves the
\* registry empty.
C5_AllPendingDeliveredRegistryCleared ==
    [][IsMutation' =>
          /\ \A w \in Range(callbacksForNewMessages) :
                 resJson[w] = <<>> =>
                     \E i \in DOMAIN out'.delivered :
                         out'.delivered[i] = [req |-> w, body |-> out'.message]
          /\ callbacksForNewMessages' = <<>>]_vars

\* C6: when sendUTF throws for some connection during the broadcast of a
\* mutation, every other open connection still receives the envelope and the
\* mutation call returns normally.
C6_SendFailureIsolated ==
    (IsMutation /\ out.bad # {} /\ ~out.lpThrew) =>
        /\ \A c \in Range(connections) \ out.bad :
               \E i \in DOMAIN out.sends :
                   out.sends[i] = [conn |-> c, type |-> EnvelopeType,
                                   message |-> out.message[1]]
        /\ ~out.wsThrew
        /\ ~out.uncaught
        /\ IsWs(out.op) \/ out.status \in {200, 201}

\* C7: handleReaction on an id that no stored message has returns null (the
\* HTTP handler answers 404) and changes nothing: store, next id, waiters, timers,
\* responses and connections are as before, and nothing is sent or delivered.
C7_ReactionNotFoundNoEffect ==
    [][(out'.core = "handleReaction" /\ \A i \in DOMAIN messages : messages[i].id # out'.id) =>
          /\ out'.message = <<>>
          /\ out'.status = (IF IsWs(out'.op) THEN 0 ELSE 404)
          /\ out'.sends = <<>>
          /\ out'.delivered = <<>>
          /\ UNCHANGED <<messages, nextId, callbacksForNewMessages, timeout, resJson,
                         connections>>]_vars

C7_Witness ==
    /\ out.core = "handleReaction"
    /\ out.status = 404
    /\ messages # <<>>
    /\ connections # <<>>
    /\ \E w \in Range(callbacksForNewMessages) : Pending(w)

\* C8: the first reaction to a message (whose timestamp is until then its
\* creation timestamp) leaves it with a strictly greater timestamp, and a pull
\* with since equal to the creation timestamp then returns it.
C8_ReactionTimestampStrictlyGreater ==
    [][\A i \in DOMAIN messages :
          (/\ out'.core = "handleReaction"
           /\ out'.id = messages[i].id
           /\ messages[i].likes + messages[i].dislikes = 0
           /\ messages'[i].likes + messages'[i].dislikes = 1) =>
              /\ messages'[i].timestamp > messages[i].timestamp
              /\ \E k \in DOMAIN MessagesToSend(messages', Num(messages[i].timestamp)) :
                     MessagesToSend(messages', Num(messages[i].timestamp))[k] = messages'[i]]_vars

\* The messages of msgs with a timestamp greater than t, in store order.
NewerThan(msgs, t) == SelectSeq(msgs, LAMBDA m : m.timestamp > t)

\* C9: a pull with since = t, when some message has a timestamp > t, answers at
\* once with exactly the messages with timestamp > t in store order and
\* registers no waiter; a pull with no since (or since = 0) on a non-empty
\* store answers at once with all messages.
C9_PullReturnsNewer ==
    [][out'.op = "GET /messages" =>
          LET since == out'.since
          IN  /\ (/\ ~since.nan
                  /\ \E i \in DOMAIN messages : messages[i].timestamp > since.val) =>
                      /\ out'.status = 200
                      /\ out'.body = NewerThan(messages, since.val)
                      /\ UNCHANGED <<callbacksForNewMessages, timeout, nextReq>>
              /\ ((since.nan \/ since.val = 0) /\ messages # <<>>) =>
                      /\ out'.status = 200
                      /\ out'.body = messages
                      /\ UNCHANGED <<callbacksForNewMessages, timeout, nextReq>>]_vars

C9_Witness ==
    /\ out.op = "GET /messages"
    /\ ~out.since.nan
    /\ out.status = 200
    /\ Len(out.body) = 1
    /\ Len(messages) = 2
    /\ \E i \in DOMAIN messages : messages[i].timestamp = out.since.val

\* C10: every pending waiter is eventually answered, by exactly one of the two
\* outcomes: a notification (timer cancelled, first body one message) or its
\* timer (timer fired, first body empty).
C10_WaiterEventuallyAnswered ==
    \A w \in Reqs :
        Pending(w) ~> /\ resJson[w] # <<>>
                      /\ \/ (timeout[w] = "cleared" /\ Head(resJson[w]) = 1)
                         \/ (timeout[w] = "fired" /\ Head(resJson[w]) = 0)

\* The ids of the messages of msgs.
IdsOf(msgs) == {msgs[i].id : i \in DOMAIN msgs}

\* C11: the handler that accepts a connection sends it exactly one init
\* envelope, carrying the store as it is at that moment; no other handler sends
\* an init envelope; and a message envelope is only ever sent for a message that
\* was not in the store before the handler that sends it (so never for one that
\* was in the store when the receiving connection was opened).
C11_InitOnceWithStoreContents ==
    [][/\ out'.op = "ws request" =>
              /\ out'.conn \notin Range(connections)
              /\ connections' = Append(connections, out'.conn)
              /\ out'.sends = <<[conn |-> out'.conn, type |-> "init",
                                 messages |-> messages]>>
              /\ messages' = messages
       /\ \A i \in DOMAIN out'.sends :
              /\ out'.sends[i].type = "init" => out'.op = "ws request"
              /\ out'.sends[i].type = "message" =>
                     /\ out'.sends[i].conn \in Range(connections)
                     /\ out'.sends[i].message.id \notin IdsOf(messages)
                     /\ IdsOf(messages) \subseteq IdsOf(messages')]_vars

C11_Witness ==
    /\ out.op = "ws request"
    /\ messages # <<>>
    /\ Len(connections) = 2
    /\ out.sends[1].messages = messages

\* What POST /messages with this author and text does to the store, the next
\* id, the waiters and the connections: nothing when it answers 400, otherwise
\* the append and the two notifications of createMessage.
EffectOfPostMessages(author, text) ==
    IF ~TruthyStr(author) \/ ~TruthyStr(text)
    THEN /\ UNCHANGED <<messages, nextId, callbacksForNewMessages, timeout, resJson>>
         /\ out'.sends = <<>>
         /\ out'.delivered = <<>>
    ELSE \E t \in Now(messages)..MaxTime :
             LET newMessage == [id |-> nextId, author |-> author, text |-> text,
                                likes |-> 0, dislikes |-> 0, timestamp |-> t]
                 n == Notify("message", newMessage, out'.bad)
             IN  /\ messages' = Append(messages, newMessage)
                 /\ nextId' = nextId + 1
                 /\ callbacksForNewMessages' = n.cbs
                 /\ timeout' = n.tm
                 /\ resJson' = n.rj
                 /\ out'.sends = n.sends
                 /\ out'.delivered = n.delivered

\* What POST /messages/:id/like (or dislike) does: nothing when it answers 404,
\* otherwise the increment, the timestamp refresh and the two notifications.
EffectOfPostReaction(id, reaction) ==
    LET i == Find(messages, id)
    IN  /\ nextId' = nextId
        /\ IF i = 0
           THEN /\ UNCHANGED <<messages, callbacksForNewMessages, timeout, resJson>>
                /\ out'.sends = <<>>
                /\ out'.delivered = <<>>
           ELSE \E t \in Now(messages)..MaxTime :
                    LET message == React(messages[i], reaction, t)
                        n == Notify("update", message, out'.bad)
                    IN  /\ messages' = [messages EXCEPT ![i] = message]
                        /\ callbacksForNewMessages' = n.cbs
                        /\ timeout' = n.tm
                        /\ resJson' = n.rj
                        /\ out'.sends = n.sends
                        /\ out'.delivered = n.delivered

\* C12: a create or reaction that arrives as a frame on a connection changes the
\* store, fulfils the waiters and sends envelopes exactly as the HTTP request
\* with the same author and text, or the same id, does.
C12_FrameSameEffectAsHttp ==
    [][out'.op = "ws message" =>
          /\ out'.core = "createMessage" =>
                 EffectOfPostMessages(out'.message[1].author, out'.message[1].text)
          /\ out'.core = "handleReaction" =>
                 EffectOfPostReaction(out'.id, out'.reaction)]_vars

\* C13: a successful handleReaction(id, "like") adds exactly one to the likes of
\* the message with that id and leaves its dislikes, id, author and text as
\* they were; "dislike" likewise with the two counters exchanged; every other
\* message stays as it was and the store keeps its length.
C13_ReactionChangesOneCounter ==
    [][(out'.core = "handleReaction" /\ out'.message # <<>>) =>
          /\ Len(messages') = Len(messages)
          /\ \E i \in DOMAIN messages : messages[i].id = out'.id
          /\ \A i \in DOMAIN messages :
                 IF i = Find(messages, out'.id)
                 THEN /\ messages'[i].likes =
                            messages[i].likes + (IF out'.reaction = "like" THEN 1 ELSE 0)
                      /\ messages'[i].dislikes =
                            messages[i].dislikes + (IF out'.reaction = "dislike" THEN 1 ELSE 0)
                      /\ messages'[i].id = messages[i].id
                      /\ messages'[i].author = messages[i].author
                      /\ messages'[i].text = messages[i].text
                 ELSE messages'[i] = messages[i]]_vars

C13_Witness ==
    /\ out.core = "handleReaction"
    /\ out.reaction = "dislike"
    /\ \E i \in DOMAIN messages :
           /\ messages[i].id = out.id
           /\ messages[i].dislikes = 1
           /\ messages[i].likes = 0

\* C14: after every handler the ids of the stored messages are strictly
\* increasing in store order (hence pairwise distinct) and the first is 1; a
\* handler that adds a message adds exactly one, at the end, with likes = 0 and
\* dislikes = 0.
C14_IdsIncreasingFromOne ==
    [][/\ messages' # <<>> => messages'[1].id = 1
       /\ \A i, j \in DOMAIN messages' : i < j => messages'[i].id < messages'[j].id
       /\ Len(messages') # Len(messages) =>
              /\ Len(messages') = Len(messages) + 1
              /\ Last(messages').likes = 0
              /\ Last(messages').dislikes = 0
              /\ out'.core = "createMessage"]_vars

C14_Witness ==
    /\ out.core = "createMessage"
    /\ Len(messages) = 2
    /\ messages[1].id = 1
    /\ messages[2].id = 2
    /\ messages[1].likes + messages[1].dislikes = 0

\* C15: the close handler of connection c removes c from the registry, keeps
\* every other connection in place, and changes nothing else; when c is not in
\* the registry (a second close) it changes nothing at all. A closed connection
\* is sent nothing afterwards: every envelope goes to a connection that is in
\* the registry, and a connection that enters the registry is a new one.
C15_CloseRemovesOnlyThatConnection ==
    [][/\ out'.op = "ws close" =>
              /\ connections' = SelectSeq(connections, LAMBDA x : x # out'.conn)
              /\ out'.conn \notin Range(connections) => connections' = connections
              /\ out'.sends = <<>>
              /\ UNCHANGED <<messages, nextId, callbacksForNewMessages, timeout, resJson>>
       /\ \A i \in DOMAIN out'.sends : out'.sends[i].conn \in Range(connections')
       /\ \A c \in Range(connections') \ Range(connections) : c >= nextConn]_vars

C15_Witness ==
    /\ out.op = "ws close"
    /\ out.conn = 1
    /\ connections = <<2>>

\* a can be obtained from b by leaving elements out, keeping the order.
RECURSIVE IsSubseq(_, _)
IsSubseq(a, b) ==
    IF a = <<>> THEN TRUE
    ELSE IF b = <<>> THEN FALSE
    ELSE IF Head(a) = Head(b) THEN IsSubseq(Tail(a), Tail(b))
    ELSE IsSubseq(a, Tail(b))

\* C16: the message and update envelopes an open connection has been sent since
\* its init are, in the order they were sent, envelopes of the mutations
\* applied since it was opened, in the order those were applied: none twice,
\* none out of place, none for anything else.
C16_EnvelopesInMutationOrder ==
    \A c \in Range(connections) : IsSubseq(hist.recv[c], hist.due[c])

C16_Witness ==
    \E c \in Range(connections) :
        /\ Len(hist.recv[c]) = 2
        /\ hist.recv[c] = hist.due[c]
        /\ hist.recv[c][1].type = "message"
        /\ hist.recv[c][2].type = "update"

\* C17: a frame that is not UTF-8 text, is not parsable JSON, or is JSON with a
\* type other than message / like / dislike (the JSON value null has none) is
\* dropped: store, next id, waiters, timers, responses and connections stay as
\* they are, nothing is sent, and the handler returns normally, so that the
\* connection stays open.
C17_MalformedFrameDropped ==
    [][(out'.op = "ws message" /\ out'.frame \in {"binary", "garbage", "null", "other"}) =>
          /\ UNCHANGED <<messages, nextId, callbacksForNewMessages, timeout, resJson,
                         connections>>
          /\ out'.sends = <<>>
          /\ out'.delivered = <<>>
          /\ ~out'.uncaught]_vars

\* Every pending waiter has seen everything: no stored message is newer than
\* its since, and the store is empty for a waiter without a since.
PendingHaveSeenAll ==
    \A w \in Reqs :
        Pending(w) =>
            IF Truthy(hist.since[w])
            THEN \A i \in DOMAIN messages : messages[i].timestamp <= hist.since[w].val
            ELSE messages = <<>>

\* C18 as stated: between handlers every pending waiter has seen everything,
\* and the one message a mutation delivers to a waiter is exactly the messages
\* newer than the waiter's since (all messages, for a waiter without a since).
C18_DeliveredIsAllNewer ==
    [][/\ PendingHaveSeenAll'
       /\ \A i \in DOMAIN out'.delivered :
              out'.delivered[i].body # <<>> =>
                  out'.delivered[i].body =
                      MessagesToSend(messages', hist.since[out'.delivered[i].req])]_vars

\* C18, amended: between handlers every pending waiter has seen everything,
\* and a mutation delivers to a waiter exactly one message, which is the only
\* message that can be newer than the waiter's since: every message newer than
\* its since is in the delivered body, while the delivered message itself may
\* carry a timestamp that is not greater than the since.
C18_DeliveredCoversAllNewer ==
    [][/\ PendingHaveSeenAll'
       /\ \A i \in DOMAIN out'.delivered :
              out'.delivered[i].body # <<>> =>
                  /\ Len(out'.delivered[i].body) = 1
                  /\ Range(MessagesToSend(messages', hist.since[out'.delivered[i].req]))
                         \subseteq Range(out'.delivered[i].body)]_vars

C18_Witness ==
    /\ Len(messages) = 2
    /\ \E i \in DOMAIN out.delivered :
           LET since == hist.since[out.delivered[i].req]
           IN  /\ Truthy(since)
               /\ out.delivered[i].body = MessagesToSend(messages, since)
               /\ Len(out.delivered[i].body) = 1

\* C19: no handler removes or reorders messages: the store never gets shorter,
\* every message keeps its position, id, author and text, and its likes and
\* dislikes are never negative and never decrease.
C19_StoreOnlyGrows ==
    [][/\ Len(messages') >= Len(messages)
       /\ \A i \in DOMAIN messages :
              /\ messages'[i].id = messages[i].id
              /\ messages'[i].author = messages[i].author
              /\ messages'[i].text = messages[i].text
              /\ messages'[i].likes >= messages[i].likes
              /\ messages'[i].dislikes >= messages[i].dislikes
       /\ \A i \in DOMAIN messages' :
              messages'[i].likes >= 0 /\ messages'[i].dislikes >= 0]_vars

C19_Witness ==
    /\ out.core = "handleReaction"
    /\ out.reaction = "like"
    /\ Len(messages) = 1
    /\ messages[1].likes = 1
    /\ messages[1].author = "Jane"

\* C20: nothing is lost to a long-poll client that polls with since = the
\* greatest timestamp of its last response: every stored message that its copy
\* does not hold in its current state has a timestamp greater than that since,
\* so that the next pull (or the notification of its held request) returns it.
C20_NoChangeLostToPollingClient ==
    \A i \in DOMAIN messages :
        messages[i] \notin hist.known => messages[i].timestamp > hist.t

\* C21: every stored message has a non-empty author and a non-empty text,
\* whether POST /messages or a message frame on a connection created it.
C21_StoredAuthorAndTextNonEmpty ==
    \A i \in DOMAIN messages :
        TruthyStr(messages[i].author) /\ TruthyStr(messages[i].text)
====
